---- MODULE Spec2Model ----
(***************************************************************************)
(* Model of monitor.py: one poll cycle (check_and_notify) of the SF        *)
(* dispatch monitor, run repeatedly by an external scheduler against a     *)
(* state file and a remote dataset that changes between the runs.          *)
(***************************************************************************)
EXTENDS Integers, Sequences, FiniteSets, TLC

\* ---------------------------------------------------------------- bounds
MaxCalls == 3        \* longest record list the dataset query returns
MaxRuns  == 2        \* number of scheduled runs of main()
MaxRetriesArg == 8   \* largest max_retries a call on its own is given

\* ------------------------------------------------------- program constants
max_retries == 5     \* send_notification_with_backoff(max_retries=5)
base_backoff == 2    \* backoff = 2
max_backoff == 64    \* max_backoff = 64

\* ------------------------------------------------------------ value model
Null == "<None>"     \* Python None / a missing key of call.get(...)

\* Python truthiness of the values a record field or a token can hold.
PyTrue == "<True>"
PyFalse == "<False>"

Truthy(v) == v \notin {Null, PyFalse, ""}

\* Python `a or b`.
PyOr(a, b) == IF Truthy(a) THEN a ELSE b

Rec(i, c, t) == [id |-> i, cad_number |-> c, received_datetime |-> t]

\* The call records the dataset can hold, each with its own received time:
\* three with an id, one that has only a cad_number, one with both (its id
\* shadows the cad_number) and one with neither.
Records ==
    { Rec("b", Null, 5), Rec("a", Null, 4), Rec(Null, Null, 3),
      Rec(Null, "c", 2), Rec("a", "c", 1) }

Tokens == {"t1", "t2"}

Range(s) == { s[k] : k \in DOMAIN s }

\* A query result: up to MaxCalls rows, each once, in the order the query
\* asks for ("$order": "received_datetime DESC").
RecordLists ==
    UNION { { s \in [1..n -> Records] :
                \A p, q \in 1..n :
                    p < q => s[p].received_datetime > s[q].received_datetime }
            : n \in 0..MaxCalls }

\* c.get("id") or c.get("cad_number")
identity(c) == PyOr(c.id, c.cad_number)

Identities(cs) == { identity(cs[k]) : k \in DOMAIN cs }

\* ------------------------------------------------------------- state file
\* seen_ids is kept as a set: the JSON list is only ever read through
\* set(state.get("seen_ids", [])).
Absent == [exists |-> FALSE, seen_ids |-> {}, rows_updated_at |-> Null]

StateFile(seen, tok) == [exists |-> TRUE, seen_ids |-> seen, rows_updated_at |-> tok]

\* The state files a run can find: none, or one left by an earlier
\* deployment ("z" is a call that has since left the fetch window).
SeedIds == {"a", "z"}

SeedSeen == { {} } \cup { {x} : x \in SeedIds }

InitFiles == {Absent} \cup { StateFile(s, "t1") : s \in SeedSeen }

load_state(f) ==
    IF f.exists
    THEN [seen_ids |-> f.seen_ids, rows_updated_at |-> f.rows_updated_at]
    ELSE [seen_ids |-> {}, rows_updated_at |-> Null]

\* ---------------------------------------------------------------- notifier
\* What the push service answers to the POSTs of one delivery, as HTTP
\* statuses (0 stands for a transport error, no response): it rate-limits the
\* first n of them and answers a to the others.
Responses ==
    { [k \in 1..max_retries |-> IF k <= n THEN 429 ELSE a]
      : n \in 0..max_retries, a \in {200, 500, 0} }

\* send_notification: "ok", or the exception raised.
send_notification(status) ==
    IF status = 0 THEN "Exception"
    ELSE IF status >= 400 THEN "HTTPError"
    ELSE "ok"

\* Variant: every HTTP error is retried.
IsRateLimit_any_http_error(r, status) == r = "HTTPError"

\* Variant: every failure is retried, transport errors included.
IsRateLimit_any_failure(r, status) == r # "ok"

\* except requests.HTTPError as e: if e.response.status_code == 429
IsRateLimit(r, status) == r = "HTTPError" /\ status = 429

\* Variant: sleeps after the last allowed attempt too.
MayRetry_always(attempt, retries) == TRUE

\* if attempt < max_retries - 1
MayRetry(attempt, retries) == attempt < retries - 1

\* Variant: the doubling is not capped.
next_backoff_uncapped(backoff) == backoff * 2

\* backoff = min(backoff * 2, max_backoff)
next_backoff(backoff) ==
    IF backoff * 2 < max_backoff THEN backoff * 2 ELSE max_backoff

\* The for loop of send_notification_with_backoff from `attempt` on (0-based),
\* for range(retries); posts counts the POSTs made so far, sleeps lists the
\* waits performed.
RECURSIVE backoff_loop(_, _, _, _, _, _)
backoff_loop(resp, retries, attempt, backoff, posts, sleeps) ==
    IF attempt >= retries
    THEN [ok |-> FALSE, posts |-> posts, sleeps |-> sleeps]
    ELSE LET r == send_notification(resp[attempt + 1]) IN
         IF r = "ok"
         THEN [ok |-> TRUE, posts |-> posts + 1, sleeps |-> sleeps]
         ELSE IF IsRateLimit(r, resp[attempt + 1])
         THEN IF MayRetry(attempt, retries)
              THEN backoff_loop(resp, retries, attempt + 1, next_backoff(backoff),
                                posts + 1, Append(sleeps, backoff))
              ELSE [ok |-> FALSE, posts |-> posts + 1, sleeps |-> sleeps]
         ELSE [ok |-> FALSE, posts |-> posts + 1, sleeps |-> sleeps]

\* send_notification_with_backoff(title, message, max_retries=retries)
send_with_retries(resp, retries) ==
    backoff_loop(resp, retries, 0, base_backoff, 0, <<>>)

\* send_notification_with_backoff(title, message), as check_and_notify calls it.
send_notification_with_backoff(resp) == send_with_retries(resp, max_retries)

\* ------------------------------------------------------------- format_call

\* datetime.fromisoformat(...).strftime("%-m/%-d/%Y %-I:%M %p") on the
\* timestamps of CallTimes; Null where fromisoformat raises.
strftime(received) ==
    CASE received = "2026-02-05T20:51:00.000" -> "2/5/2026 8:51 PM"
      [] received = "2026-02-05T20:51:00Z"    -> "2/5/2026 8:51 PM"
      [] received = "2026-12-25T00:05:00.000" -> "12/25/2026 12:05 AM"
      [] OTHER                                 -> Null

received_formatted(received) ==
    IF Truthy(received)
    THEN IF strftime(received) # Null THEN strftime(received) ELSE received
    ELSE "Unknown time"

Redaction == "[Sensitive - location suppressed]"

\* Variant: the location is shown whatever the flag.
Location_unredacted(intersection, sensitive) ==
    PyOr(intersection, "Unknown location")

Location(intersection, sensitive) ==
    IF Truthy(sensitive)
    THEN Redaction
    ELSE PyOr(intersection, "Unknown location")

\* Variant: the neighborhood is shown whatever the flag.
ShowNeighborhood_when_sensitive(neighborhood, sensitive) ==
    Truthy(PyOr(neighborhood, ""))

ShowNeighborhood(neighborhood, sensitive) ==
    Truthy(PyOr(neighborhood, "")) /\ ~Truthy(sensitive)

Line(label, value) == [label |-> label, value |-> value]

\* The list `lines` of format_call.
format_lines(call) ==
    <<Line("Time", received_formatted(call.received_datetime)),
      Line("Type", PyOr(call.call_type_original_desc, "Unknown")),
      Line("Location", Location(call.intersection_name, call.sensitive_call))>>
    \o (IF ShowNeighborhood(call.analysis_neighborhood, call.sensitive_call)
        THEN <<Line("Neighborhood", PyOr(call.analysis_neighborhood, ""))>>
        ELSE <<>>)
    \o <<Line("Agency", PyOr(call.agency, "Unknown agency"))>>

RECURSIVE join(_, _)
join(sep, lines) ==
    IF lines = <<>>
    THEN ""
    ELSE IF Len(lines) = 1
         THEN lines[1].label \o ": " \o lines[1].value
         ELSE lines[1].label \o ": " \o lines[1].value \o sep
                  \o join(sep, Tail(lines))

format_call(call) == join("\n", format_lines(call))

\* ---------------------------------------------------------- run controller
\* Variant: the token test inverted.
ShouldSkip_inverted(current, last, seen) == current # last /\ seen # {}

\* if current_updated == last_updated and seen_ids: return
ShouldSkip(current, last, seen) == current = last /\ seen # {}

\* Variant: no first-run branch.
NewCalls_no_bootstrap(cs, seen) ==
    SelectSeq(cs, LAMBDA c : identity(c) \notin seen)

\* Variant: the new calls are taken oldest first.
NewCalls_oldest_first(cs, seen) ==
    IF seen = {}
    THEN <<>>
    ELSE LET sel == SelectSeq(cs, LAMBDA c : identity(c) \notin seen)
         IN  [k \in 1..Len(sel) |-> sel[Len(sel) + 1 - k]]

\* Variant: the fallback key tried first.
NewCalls_by_cad_number(cs, seen) ==
    IF seen = {}
    THEN <<>>
    ELSE SelectSeq(cs, LAMBDA c : PyOr(c.cad_number, c.id) \notin seen)

\* new_calls: [] on a first run, else the fetched records not yet seen.
NewCalls(cs, seen) ==
    IF seen = {}
    THEN <<>>
    ELSE SelectSeq(cs, LAMBDA c : identity(c) \notin seen)

\* Variant: no `if call_id` guard.
TrackSent_unguarded(sent, call, success) ==
    IF success
    THEN Append(sent, identity(call))
    ELSE sent

\* Variant: the call is tracked whatever the delivery returned.
TrackSent_any_result(sent, call, success) ==
    IF Truthy(identity(call))
    THEN Append(sent, identity(call))
    ELSE sent

\* if success: call_id = ...; if call_id: sent_call_ids.append(call_id)
TrackSent(sent, call, success) ==
    IF success /\ Truthy(identity(call))
    THEN Append(sent, identity(call))
    ELSE sent

\* Variant: no break on failure.
LoopContinues_after_failure(success, k, n) == k < n

\* The loop goes on to call i+1 only after a success on call i < n.
LoopContinues(success, k, n) == success /\ k < n

\* Variant: the delivered identifiers are not merged in.
updated_seen_ids_unsaved(seen, sent) == seen

\* Variant: the loaded identifiers are dropped.
updated_seen_ids_only_sent(seen, sent) == Range(sent)

\* updated_seen_ids = list(seen_ids) + sent_call_ids
updated_seen_ids(seen, sent) == seen \cup Range(sent)

\* Variant: the state is saved after every delivery.
file_after_delivery_saved(f, seen, sent) ==
    StateFile(seen \cup Range(sent), f.rows_updated_at)

\* The notify loop has no call of save_state.
file_after_delivery(f, seen, sent) == f

\* Variant: the token the run loaded is written back.
persisted_token_stale(current, last) == last

\* "rows_updated_at": current_updated
persisted_token(current, last) == current

\* Variant: the error path exits with 0 as well.
main_exit_code_zero(raised) == 0

\* main: exit(1) when check_and_notify raised, exit(0) otherwise.
main_exit_code(raised) == IF raised THEN 1 ELSE 0

VARIABLES
    file,             \* STATE_FILE
    rowsUpdatedAt,    \* the dataset's modification token
    rows,             \* what the dataset query returns now
    pc,               \* position of the running process, "exited" between runs
    seen_ids, last_updated, current_updated, calls, new_calls, i,
    sent_call_ids,    \* locals of check_and_notify
    exit_code,        \* exit code of the last run
    \* ---- history of the run in progress
    runs,             \* runs started so far
    file0,            \* the state file as the run found it
    loads,            \* calls of load_state by the runs so far
    fetches,          \* calls of fetch_recent_calls in the run
    saves,            \* calls of save_state in the run
    posted,           \* a notification POST was made in the run
    updated,          \* the dataset changed since the run started
    deliveries,       \* send_notification_with_backoff calls: (call, result)
    outcome,          \* "none", "skipped", "saved", "aborted"
    \* ---- history across runs
    notified,         \* identities with a successful delivery so far
    left,             \* calls the run left undelivered when its loop stopped
    pending,          \* calls the previous run left undelivered
    everFetched,      \* identities fetched by earlier runs
    bootstrapped,     \* an earlier run was a completed first run with records
    \* ---- one call of send_notification_with_backoff on its own
    bk_in,            \* its max_retries and the statuses the POSTs are answered
    bk_out,           \* <<>>, or <<its result>> once it has returned
    \* ---- one call of format_call on each of two records
    fmt_in,           \* the two records
    fmt_out,          \* <<>>, or the two texts
    \* ---- a second invocation of main(), started while or after the first
    p2                \* its position, locals and history

vars == << file, rowsUpdatedAt, rows, pc, seen_ids, last_updated,
           current_updated, calls, new_calls, i, sent_call_ids, exit_code,
           runs, file0, loads, fetches, saves, posted, updated, deliveries,
           outcome, notified, left, pending, everFetched, bootstrapped,
           bk_in, bk_out, fmt_in, fmt_out, p2 >>

\* What the runs of the first invocation never touch.
aux == << bk_in, bk_out, fmt_in, fmt_out, p2 >>

dataset == << rowsUpdatedAt, rows >>

history == << notified, left, pending, everFetched, bootstrapped >>

locals == << seen_ids, last_updated, current_updated, calls, new_calls, i,
             sent_call_ids >>

\* No call of send_notification_with_backoff on its own.
SendIdle == bk_in = [retries |-> 0, resp |-> <<>>] /\ bk_out = <<>>

\* No call of format_call on its own.
FormatIdle == fmt_in = <<>> /\ fmt_out = <<>>

\* No second invocation.
P2Idle == p2 = [pc |-> "off"]

\* The state file, the dataset and the process before the first run.
MainInit ==
    /\ file \in InitFiles
    /\ rowsUpdatedAt = "t1"
    /\ rows = <<>>
    /\ pc = "exited"
    /\ seen_ids = {}
    /\ last_updated = Null
    /\ current_updated = Null
    /\ calls = <<>>
    /\ new_calls = <<>>
    /\ i = 1
    /\ sent_call_ids = <<>>
    /\ exit_code = 0
    /\ runs = 0
    /\ file0 = file
    /\ loads = 0
    /\ fetches = 0
    /\ saves = 0
    /\ posted = FALSE
    /\ updated = FALSE
    /\ deliveries = <<>>
    /\ outcome = "none"
    /\ notified = {}
    /\ left = {}
    /\ pending = {}
    /\ everFetched = {}
    /\ bootstrapped = FALSE

Init ==
    /\ SendIdle
    /\ FormatIdle
    /\ P2Idle
    /\ MainInit

\* The dataset changes: a new token, and any query result.  The change is
\* placed before the run's metadata request; one made while the previous run
\* was notifying or exiting is seen by this run exactly like that.
DatasetUpdate ==
    /\ pc = "get_token"
    /\ ~updated
    /\ updated' = TRUE
    /\ \E t \in Tokens \ {rowsUpdatedAt} : rowsUpdatedAt' = t
    /\ rows' \in RecordLists
    /\ UNCHANGED aux
    /\ UNCHANGED << file, pc, locals, exit_code, runs, file0, loads, fetches, saves,
                    posted, deliveries, outcome, history >>

\* A scheduled run starts: main() calls check_and_notify, which loads the state.
LoadState ==
    /\ pc = "exited"
    /\ runs < MaxRuns
    /\ LET state == load_state(file) IN
       /\ seen_ids' = state.seen_ids
       /\ last_updated' = state.rows_updated_at
    /\ pc' = "get_token"
    /\ current_updated' = Null
    /\ calls' = <<>>
    /\ new_calls' = <<>>
    /\ i' = 1
    /\ sent_call_ids' = <<>>
    /\ runs' = runs + 1
    /\ file0' = file
    /\ loads' = loads + 1
    /\ fetches' = 0
    /\ saves' = 0
    /\ posted' = FALSE
    /\ updated' = FALSE
    /\ deliveries' = <<>>
    /\ outcome' = "none"
    /\ pending' = left
    /\ left' = {}
    /\ everFetched' = IF seen_ids = {}
                       THEN everFetched \cup Identities(calls)
                       ELSE everFetched
    /\ bootstrapped' = (bootstrapped \/ (outcome = "saved" /\ seen_ids = {} /\ calls # <<>>))
    /\ UNCHANGED aux
    /\ UNCHANGED << file, dataset, exit_code, notified >>

\* current_updated = get_rows_updated_at(), then the short-circuit test.
CheckUpdated ==
    /\ pc = "get_token"
    /\ current_updated' = rowsUpdatedAt
    /\ IF ShouldSkip(rowsUpdatedAt, last_updated, seen_ids)
       THEN /\ pc' = "exited"
            /\ exit_code' = main_exit_code(FALSE)
            /\ outcome' = "skipped"
       ELSE /\ pc' = "fetch"
            /\ UNCHANGED << exit_code, outcome >>
    /\ UNCHANGED aux
    /\ UNCHANGED << file, dataset, seen_ids, last_updated, calls, new_calls, i,
                    sent_call_ids, runs, file0, loads, fetches, saves, posted,
                    updated, deliveries, history >>

\* get_rows_updated_at raises (raise_for_status or a transport error).
MetadataFails ==
    /\ pc = "get_token"
    /\ pc' = "exited"
    /\ exit_code' = main_exit_code(TRUE)
    /\ outcome' = "aborted"
    /\ UNCHANGED aux
    /\ UNCHANGED << file, dataset, locals, runs, file0, loads, fetches, saves, posted,
                    updated, deliveries, history >>

\* calls = fetch_recent_calls(), then the new-call computation.
FetchRecentCalls ==
    /\ pc = "fetch"
    /\ calls' = rows
    /\ new_calls' = NewCalls(rows, seen_ids)
    /\ i' = 1
    /\ sent_call_ids' = <<>>
    /\ fetches' = fetches + 1
    /\ pc' = IF NewCalls(rows, seen_ids) # <<>> THEN "notify" ELSE "save"
    /\ UNCHANGED aux
    /\ UNCHANGED << file, dataset, seen_ids, last_updated, current_updated,
                    exit_code, runs, file0, loads, saves, posted, updated, deliveries,
                    outcome, history >>

\* fetch_recent_calls raises.
FetchFails ==
    /\ pc = "fetch"
    /\ fetches' = fetches + 1
    /\ pc' = "exited"
    /\ exit_code' = main_exit_code(TRUE)
    /\ outcome' = "aborted"
    /\ UNCHANGED aux
    /\ UNCHANGED << file, dataset, locals, runs, file0, loads, saves, posted, updated,
                    deliveries, history >>

\* One iteration of the notify loop, for new_calls[i].
Notify ==
    /\ pc = "notify"
    /\ \E resp \in Responses :
         LET call == new_calls[i]
             r == send_notification_with_backoff(resp)
             n == Len(new_calls)
         IN
         /\ posted' = (posted \/ r.posts > 0)
         /\ deliveries' = Append(deliveries, [call |-> call, ok |-> r.ok])
         /\ sent_call_ids' = TrackSent(sent_call_ids, call, r.ok)
         /\ notified' = IF r.ok /\ Truthy(identity(call))
                        THEN notified \cup {identity(call)}
                        ELSE notified
         /\ IF LoopContinues(r.ok, i, n)
            THEN /\ i' = i + 1
                 /\ pc' = "notify"
            ELSE /\ i' = i
                 /\ pc' = "save"
         /\ left' = IF r.ok THEN left ELSE { new_calls[k] : k \in i..n }
         /\ file' = file_after_delivery(file, seen_ids,
                                        TrackSent(sent_call_ids, call, r.ok))
    /\ UNCHANGED aux
    /\ UNCHANGED << dataset, seen_ids, last_updated, current_updated,
                    calls, new_calls, exit_code, runs, file0, loads, fetches, saves,
                    updated, outcome, pending, everFetched, bootstrapped >>

\* save_state({"seen_ids": updated_seen_ids, "rows_updated_at": current_updated}),
\* after which check_and_notify returns and main exits.
SaveState ==
    /\ pc = "save"
    /\ file' = StateFile(updated_seen_ids(seen_ids, sent_call_ids),
                         persisted_token(current_updated, last_updated))
    /\ saves' = saves + 1
    /\ pc' = "exited"
    /\ exit_code' = main_exit_code(FALSE)
    /\ outcome' = "saved"
    /\ UNCHANGED aux
    /\ UNCHANGED << dataset, locals, runs, file0, loads, fetches, posted, updated,
                    deliveries, history >>

Next ==
    \/ DatasetUpdate
    \/ LoadState
    \/ CheckUpdated
    \/ MetadataFails
    \/ FetchRecentCalls
    \/ FetchFails
    \/ Notify
    \/ SaveState

Spec == Init /\ [][Next]_vars

\* ------------------------------------------------- runs that may be killed

\* The process is killed (SIGKILL, power loss) somewhere between load_state
\* and the call of save_state.
Crash ==
    /\ pc \in {"get_token", "fetch", "notify", "save"}
    /\ pc' = "exited"
    /\ exit_code' = 137
    /\ outcome' = "crashed"
    /\ UNCHANGED aux
    /\ UNCHANGED << file, dataset, locals, runs, file0, loads, fetches, saves,
                    posted, updated, deliveries, history >>

NextCrash ==
    \/ DatasetUpdate
    \/ LoadState
    \/ CheckUpdated
    \/ MetadataFails
    \/ FetchRecentCalls
    \/ FetchFails
    \/ Notify
    \/ SaveState
    \/ Crash

SpecCrash == Init /\ [][NextCrash]_vars

\* ------------------------------------------------ two invocations of main

\* The variables of the first invocation.
first == << pc, locals, exit_code, runs, file0, loads, fetches, saves, posted,
           updated, deliveries, outcome, history >>

alone == << bk_in, bk_out, fmt_in, fmt_out >>

\* The first invocation makes one run.
FirstLoadState == runs = 0 /\ LoadState

\* The dataset changes before the second invocation's metadata request.
DatasetUpdate2 ==
    /\ p2.pc = "get_token"
    /\ ~p2.updated
    /\ p2' = [p2 EXCEPT !.updated = TRUE]
    /\ \E t \in Tokens \ {rowsUpdatedAt} : rowsUpdatedAt' = t
    /\ rows' \in RecordLists
    /\ UNCHANGED << file, first, alone >>

\* The scheduler starts main() again, after the first invocation has loaded
\* the state; `overlapped` records whether the first was still running.
LoadState2 ==
    /\ p2.pc = "off"
    /\ runs = 1
    /\ LET state == load_state(file) IN
       p2' = [pc |-> "get_token",
              seen_ids |-> state.seen_ids,
              last_updated |-> state.rows_updated_at,
              current_updated |-> Null,
              new_calls |-> <<>>,
              i |-> 1,
              sent_call_ids |-> <<>>,
              deliveries |-> <<>>,
              outcome |-> "none",
              updated |-> FALSE,
              overlapped |-> (pc # "exited")]
    /\ UNCHANGED << file, dataset, first, alone >>

CheckUpdated2 ==
    /\ p2.pc = "get_token"
    /\ IF ShouldSkip(rowsUpdatedAt, p2.last_updated, p2.seen_ids)
       THEN p2' = [p2 EXCEPT !.current_updated = rowsUpdatedAt,
                             !.pc = "exited",
                             !.outcome = "skipped"]
       ELSE p2' = [p2 EXCEPT !.current_updated = rowsUpdatedAt,
                             !.pc = "fetch"]
    /\ UNCHANGED << file, dataset, first, alone >>

MetadataFails2 ==
    /\ p2.pc = "get_token"
    /\ p2' = [p2 EXCEPT !.pc = "exited", !.outcome = "aborted"]
    /\ UNCHANGED << file, dataset, first, alone >>

FetchRecentCalls2 ==
    /\ p2.pc = "fetch"
    /\ p2' = [p2 EXCEPT !.new_calls = NewCalls(rows, p2.seen_ids),
                        !.i = 1,
                        !.sent_call_ids = <<>>,
                        !.pc = IF NewCalls(rows, p2.seen_ids) # <<>>
                               THEN "notify"
                               ELSE "save"]
    /\ UNCHANGED << file, dataset, first, alone >>

FetchFails2 ==
    /\ p2.pc = "fetch"
    /\ p2' = [p2 EXCEPT !.pc = "exited", !.outcome = "aborted"]
    /\ UNCHANGED << file, dataset, first, alone >>

Notify2 ==
    /\ p2.pc = "notify"
    /\ \E resp \in Responses :
         LET call == p2.new_calls[p2.i]
             r == send_notification_with_backoff(resp)
             n == Len(p2.new_calls)
             sent == TrackSent(p2.sent_call_ids, call, r.ok)
         IN
         /\ p2' = [p2 EXCEPT
                      !.deliveries = Append(@, [call |-> call, ok |-> r.ok]),
                      !.sent_call_ids = sent,
                      !.i = IF LoopContinues(r.ok, p2.i, n) THEN @ + 1 ELSE @,
                      !.pc = IF LoopContinues(r.ok, p2.i, n)
                             THEN "notify"
                             ELSE "save"]
         /\ file' = file_after_delivery(file, p2.seen_ids, sent)
    /\ UNCHANGED << dataset, first, alone >>

SaveState2 ==
    /\ p2.pc = "save"
    /\ file' = StateFile(updated_seen_ids(p2.seen_ids, p2.sent_call_ids),
                         persisted_token(p2.current_updated, p2.last_updated))
    /\ p2' = [p2 EXCEPT !.pc = "exited", !.outcome = "saved"]
    /\ UNCHANGED << dataset, first, alone >>

NextOverlap ==
    \/ DatasetUpdate
    \/ FirstLoadState
    \/ CheckUpdated
    \/ MetadataFails
    \/ FetchRecentCalls
    \/ FetchFails
    \/ Notify
    \/ SaveState
    \/ DatasetUpdate2
    \/ LoadState2
    \/ CheckUpdated2
    \/ MetadataFails2
    \/ FetchRecentCalls2
    \/ FetchFails2
    \/ Notify2
    \/ SaveState2

SpecOverlap == Init /\ [][NextOverlap]_vars

\* ------------------------------------ send_notification_with_backoff alone
\* HTTP status of one POST; 0 stands for a transport error (no response).
Statuses == {200, 429, 500, 0}

\* A max_retries of n and an answer for each POST it allows.
SendInputs(n) == [retries : {n}, resp : [1..n -> Statuses]]

InitSend ==
    /\ MainInit
    /\ file = Absent
    /\ FormatIdle
    /\ P2Idle
    /\ \E n \in 1..MaxRetriesArg : bk_in \in SendInputs(n)
    /\ bk_out = <<>>

\* The call runs to its return.
Send ==
    /\ bk_out = <<>>
    /\ bk_in.retries > 0
    /\ bk_out' = << send_with_retries(bk_in.resp, bk_in.retries) >>
    /\ UNCHANGED << file, dataset, pc, locals, exit_code, runs, file0, loads, fetches,
                    saves, posted, updated, deliveries, outcome, history,
                    bk_in, fmt_in, fmt_out, p2 >>

NextSend == Send

SpecSend == InitSend /\ [][NextSend]_vars

\* ------------------------------------------------------- format_call alone

\* A missing or null field is Null; a missing sensitive_call reads as False.
CallTimes == {Null, "not a date", "2026-02-05T20:51:00Z", "2026-12-25T00:05:00.000"}
CallTypes == {Null, "Medical Incident"}
Intersections == {Null, "", "MISSION ST \\ 16TH ST", "GEARY BLVD \\ 3RD AVE"}
Neighborhoods == {Null, "", "Mission", "Inner Richmond"}
Agencies == {Null, "Fire"}
Flags == {PyTrue, PyFalse}

FormatInputs ==
    [received_datetime : CallTimes,
     call_type_original_desc : CallTypes,
     intersection_name : Intersections,
     analysis_neighborhood : Neighborhoods,
     agency : Agencies,
     sensitive_call : Flags]

\* Two records that differ at most in intersection_name and
\* analysis_neighborhood.
InitFormat ==
    /\ MainInit
    /\ file = Absent
    /\ SendIdle
    /\ P2Idle
    /\ \E c \in FormatInputs, x \in Intersections, n \in Neighborhoods :
           fmt_in = <<c, [c EXCEPT !.intersection_name = x,
                                   !.analysis_neighborhood = n]>>
    /\ fmt_out = <<>>

Format ==
    /\ fmt_in # <<>>
    /\ fmt_out = <<>>
    /\ fmt_out' = [k \in DOMAIN fmt_in |->
                      [lines |-> format_lines(fmt_in[k]),
                       text |-> format_call(fmt_in[k])]]
    /\ UNCHANGED <<file, pc, exit_code, runs, file0, loads, fetches, saves, posted,
                   updated, deliveries, outcome, dataset, history, locals,
                   bk_in, bk_out, fmt_in, p2>>

NextFormat == Format

SpecFormat == InitFormat /\ [][NextFormat]_vars

TypeOK ==
    /\ file \in [exists : BOOLEAN, seen_ids : SUBSET {"a", "b", "c", "z"},
                 rows_updated_at : Tokens \cup {Null}]
    /\ pc \in {"exited", "get_token", "fetch", "notify", "save"}
    /\ i \in 1..(MaxCalls + 1)
    /\ exit_code \in {0, 1, 137}

\* ------------------------------------------------------- claim vocabulary
\* Delivery was attempted for record c in the run.
Attempted(c) == \E m \in DOMAIN deliveries : deliveries[m].call = c

\* The run has ended with check_and_notify returning through save_state.
Saved == pc = "exited" /\ outcome = "saved"

\* The identities of the records of cs are non-null and pairwise distinct.
DistinctIdentities(cs) ==
    /\ \A k \in DOMAIN cs : Truthy(identity(cs[k]))
    /\ \A p, q \in DOMAIN cs : p # q => identity(cs[p]) # identity(cs[q])

\* No two records of cs share a non-null identity.
NoSharedIdentity(cs) ==
    \A p, q \in DOMAIN cs :
        (p # q /\ Truthy(identity(cs[p]))) => identity(cs[p]) # identity(cs[q])

\* The step is a delivery that succeeded.
DeliveredNow ==
    /\ Len(deliveries') = Len(deliveries) + 1
    /\ deliveries'[Len(deliveries')].ok

\* The records the dataset query returns in the run (what it would return,
\* when the run does not fetch).
Available == IF fetches > 0 THEN Range(calls) ELSE Range(rows)

\* ------------------------------------------------------------------ claims
\* C1: a completed run that found an empty persisted seen-set leaves, as the
\* persisted seen-set, exactly the identities of the records it fetched.
C1_BootstrapRecordsFetched ==
    (Saved /\ file0.seen_ids = {}) => file.seen_ids = Identities(calls)

\* C2: every call a run left undelivered when its notify loop stopped, and
\* that the dataset still returns, has delivery attempted in the next run,
\* whatever the dataset token then is.
C2_UndeliveredRetriedNextRun ==
    (pc = "exited" /\ outcome \in {"skipped", "saved"}) =>
        \A c \in pending : c \in Available => Attempted(c)

\* C3: once a first run that fetched records has completed, a later run that
\* sees a changed token attempts delivery for every fetched record whose
\* identity no earlier run fetched.
C3_NotifiesAfterBootstrap ==
    (Saved /\ bootstrapped /\ current_updated # last_updated) =>
        \A c \in Range(calls) : identity(c) \notin everFetched => Attempted(c)

\* C4 as stated: no identity receives a successful delivery twice, whatever
\* record lists the dataset returns.
C4_NeverDeliveredTwice ==
    [][ DeliveredNow =>
          LET c == deliveries'[Len(deliveries')].call IN
          Truthy(identity(c)) => identity(c) \notin notified ]_vars

\* C4 as amended: in a run whose fetched records share no identity, no
\* successful delivery goes to an identity that was delivered before, in that
\* run or an earlier one.
C4_NeverDeliveredTwiceDistinct ==
    [][ (DeliveredNow /\ NoSharedIdentity(calls)) =>
          LET c == deliveries'[Len(deliveries')].call IN
          Truthy(identity(c)) => identity(c) \notin notified ]_vars

\* A later run fetched, without a shared identity, a call notified by an
\* earlier run together with a new one, and delivered only the new one.
C4_Witness ==
    /\ Saved
    /\ NoSharedIdentity(calls)
    /\ \E c \in Range(calls) :
         /\ identity(c) \in notified
         /\ identity(c) \in file0.seen_ids
         /\ identity(c) \notin SeedIds
         /\ ~Attempted(c)
    /\ \E m \in DOMAIN deliveries : deliveries[m].ok

\* C5: when the token read equals the persisted token and the loaded seen-set
\* is not empty, the run fetches nothing, posts nothing and leaves the state
\* file as it found it.
C5_UnchangedTokenSkips ==
    (current_updated = last_updated /\ seen_ids # {}) =>
        /\ fetches = 0
        /\ ~posted
        /\ deliveries = <<>>
        /\ saves = 0
        /\ file = file0

\* A second run skipped after a run that delivered and saved.
C5_Witness ==
    /\ pc = "exited"
    /\ outcome = "skipped"
    /\ runs >= 2
    /\ notified # {}
    /\ current_updated = last_updated

\* C6: the persisted seen-set after a run contains the persisted seen-set
\* the run found, however the run ended.
C6_SeenSetMonotone ==
    pc = "exited" => file0.seen_ids \subseteq file.seen_ids

\* A run that found a non-empty seen-set stopped on a failure after a success
\* and saved a larger one.
C6_Witness ==
    /\ Saved
    /\ file0.seen_ids # {}
    /\ file.seen_ids # file0.seen_ids
    /\ \E m \in DOMAIN deliveries : ~deliveries[m].ok

\* C7: no delivery is attempted for a record whose identity is in the
\* seen-set the run loaded.
C7_SeenNeverNotified ==
    \A m \in DOMAIN deliveries : identity(deliveries[m].call) \notin seen_ids

\* A run fetched an already seen record after a new one and notified the new one.
C7_Witness ==
    /\ Saved
    /\ deliveries # <<>>
    /\ \E k \in DOMAIN calls :
         /\ k > 1
         /\ identity(calls[k]) \in seen_ids
         /\ Attempted(calls[1])

\* C8: with new calls of distinct non-null identities, a failure on the k-th
\* stops the loop: calls k+1..n are not attempted, exactly the identities of
\* calls 1..k-1 are added to the persisted seen-set and those of k..n are not
\* in it.
C8_FailureStopsLoop ==
    (Saved /\ DistinctIdentities(new_calls)) =>
        \A k \in DOMAIN new_calls :
            (\E m \in DOMAIN deliveries :
                 deliveries[m].call = new_calls[k] /\ ~deliveries[m].ok) =>
                /\ \A j \in (k + 1)..Len(new_calls) : ~Attempted(new_calls[j])
                /\ file.seen_ids \ file0.seen_ids
                       = { identity(new_calls[j]) : j \in 1..(k - 1) }
                /\ Cardinality(file.seen_ids \ file0.seen_ids) = k - 1
                /\ \A j \in k..Len(new_calls) :
                       identity(new_calls[j]) \notin file.seen_ids

\* Three new calls, the delivery of the second failed.
C8_Witness ==
    /\ Saved
    /\ DistinctIdentities(new_calls)
    /\ Len(new_calls) = 3
    /\ Len(deliveries) = 2
    /\ deliveries[1].ok
    /\ ~deliveries[2].ok
    /\ Cardinality(file.seen_ids \ file0.seen_ids) = 1

C10_UpstreamFailureAborts ==
    /\ (pc = "exited" /\ outcome = "aborted") =>
           /\ ~posted
           /\ deliveries = <<>>
           /\ saves = 0
           /\ file = file0
           /\ exit_code = 1
    /\ (pc = "exited" /\ outcome \in {"skipped", "saved"}) => exit_code = 0

\* The query failed in a run that found a non-empty seen-set, after a run
\* that had returned normally.
C10_Witness ==
    /\ pc = "exited"
    /\ outcome = "aborted"
    /\ fetches = 1
    /\ file0.seen_ids # {}
    /\ runs >= 2
    /\ exit_code = 1

\* C13: a run that reaches save_state writes, as rows_updated_at, the token
\* it read from the dataset, on every path; a run that took the short-circuit
\* writes nothing.
C13_TokenRecorded ==
    /\ Saved =>
           /\ saves = 1
           /\ file.exists
           /\ file.rows_updated_at = current_updated
           /\ file.rows_updated_at = rowsUpdatedAt
    /\ (pc = "exited" /\ outcome = "skipped") =>
           /\ saves = 0
           /\ file = file0

\* A run that stopped on a failed delivery recorded a token that had changed.
C13_Witness ==
    /\ Saved
    /\ file0.exists
    /\ file0.rows_updated_at # rowsUpdatedAt
    /\ file.rows_updated_at = rowsUpdatedAt
    /\ \E m \in DOMAIN deliveries : ~deliveries[m].ok

\* C14: a run that loaded an empty seen-set makes no notification POST,
\* whatever it fetches.
C14_BootstrapSilent ==
    (runs > 0 /\ seen_ids = {}) => (~posted /\ deliveries = <<>>)

\* A first run fetched several records and returned.
C14_Witness ==
    /\ Saved
    /\ seen_ids = {}
    /\ Len(calls) >= 2
    /\ ~posted

\* The place of record c in list cs.
PosIn(cs, c) == CHOOSE k \in DOMAIN cs : cs[k] = c

\* C17: the new calls keep the order of the fetched list, the m-th delivery
\* of a run is for the m-th new call, and it is attempted only after the
\* deliveries for new calls 1..m-1 all succeeded.
C17_DeliveriesInFetchOrder ==
    /\ \A p, q \in DOMAIN new_calls :
           p < q =>
               /\ PosIn(calls, new_calls[p]) < PosIn(calls, new_calls[q])
               /\ new_calls[p].received_datetime > new_calls[q].received_datetime
    /\ Len(deliveries) <= Len(new_calls)
    /\ \A m \in DOMAIN deliveries :
           /\ deliveries[m].call = new_calls[m]
           /\ \A j \in 1..(m - 1) : deliveries[j].ok

\* Two new calls around an already seen one, the second reached after the
\* first was delivered.
C17_Witness ==
    /\ Saved
    /\ Len(calls) = 3
    /\ Len(new_calls) = 2
    /\ identity(calls[2]) \in seen_ids
    /\ Len(deliveries) = 2
    /\ deliveries[1].ok

\* The fetched records that have neither id nor cad_number.
NullIdentityCalls == { c \in Range(calls) : ~Truthy(identity(c)) }

\* C20 as stated: a null identity never enters the persisted seen-set, and a
\* record without identity fetched by a run that loaded a non-empty seen-set
\* is a new call of that run and has delivery attempted.
C20_NullIdentityAlwaysAttempted ==
    /\ Null \notin file.seen_ids
    /\ (Saved /\ seen_ids # {}) =>
           \A c \in NullIdentityCalls :
               c \in Range(new_calls) /\ Attempted(c)

\* C20 as amended: ... and has delivery attempted unless the delivery of an
\* earlier new call of the run failed.
C20_NullIdentityAttemptedUnlessStopped ==
    /\ Null \notin file.seen_ids
    /\ (Saved /\ seen_ids # {}) =>
           \A c \in NullIdentityCalls :
               /\ c \in Range(new_calls)
               /\ Attempted(c) \/
                      \E m \in DOMAIN deliveries :
                          /\ ~deliveries[m].ok
                          /\ PosIn(new_calls, deliveries[m].call)
                                 < PosIn(new_calls, c)

\* A later run delivered a record without identity and added nothing to the
\* persisted seen-set.
C20_Witness ==
    /\ Saved
    /\ runs >= 2
    /\ \E m \in DOMAIN deliveries :
           deliveries[m].ok /\ ~Truthy(identity(deliveries[m].call))
    /\ file.seen_ids = file0.seen_ids
    /\ Null \notin file.seen_ids

\* The run in progress, or the last one, has made no network call yet.
NoNetworkCallYet ==
    /\ current_updated = Null
    /\ fetches = 0
    /\ ~posted
    /\ deliveries = <<>>

\* What C18 says of every state: one load_state per run; at most one
\* save_state, which ends the run; until it the state file is as the run
\* found it and the run works on what it loaded from it, so a killed run
\* leaves the file as it was.
C18_StateInv ==
    /\ loads = runs
    /\ saves <= 1
    /\ saves = 1 => (pc = "exited" /\ outcome = "saved")
    /\ saves = 0 => file = file0
    /\ runs > 0 =>
           /\ seen_ids = load_state(file0).seen_ids
           /\ last_updated = load_state(file0).rows_updated_at
    /\ outcome = "crashed" => file = file0

\* What C18 says of every step: load_state comes before the run's network
\* calls, and the file changes only in save_state, after which the run
\* attempts no delivery.
C18_StepInv ==
    /\ loads' # loads => NoNetworkCallYet'
    /\ file' # file =>
           /\ pc = "save"
           /\ pc' = "exited"
           /\ saves = 0
           /\ saves' = 1
           /\ deliveries' = deliveries
    /\ (deliveries' # deliveries /\ deliveries' # <<>>) => saves' = 0

\* C18: the state file is read once per run, before any network call, and
\* written at most once, after the last delivery attempt; it does not change
\* between the start of the run and that write, so a run killed in the notify
\* loop leaves it as it was before the run.
C18_ReadOnceWrittenLast == [][C18_StepInv]_vars /\ []C18_StateInv

\* A run was killed after it had delivered a call: the file is as before and
\* does not hold the delivered identity.
C18_Witness ==
    /\ outcome = "crashed"
    /\ \E m \in DOMAIN deliveries :
           /\ deliveries[m].ok
           /\ Truthy(identity(deliveries[m].call))
           /\ identity(deliveries[m].call) \notin file.seen_ids
    /\ file = file0
    /\ file.exists

\* ------------------------------------------ claims about two invocations

\* The second invocation exists.
Started2 == p2.pc # "off"

\* Both invocations have returned.
Quiescent == pc = "exited" /\ runs = 1 /\ Started2 /\ p2.pc = "exited"

\* The identities an invocation delivered and then wrote with save_state.
Persisted1 == IF outcome = "saved" THEN Range(sent_call_ids) ELSE {}

Persisted2 ==
    IF Started2 /\ p2.outcome = "saved" THEN Range(p2.sent_call_ids) ELSE {}

\* An identity delivered and persisted by one invocation is missing from the
\* final persisted seen-set.
LostUpdate ==
    /\ Quiescent
    /\ \E id \in Persisted1 \cup Persisted2 : id \notin file.seen_ids

\* Record c was delivered by both invocations.
DeliveredByBoth(c) ==
    /\ Started2
    /\ \E m \in DOMAIN deliveries :
           deliveries[m].ok /\ deliveries[m].call = c
    /\ \E k \in DOMAIN p2.deliveries :
           p2.deliveries[k].ok /\ p2.deliveries[k].call = c

Returned == bk_out # <<>>

\* Every POST the call was allowed was answered 429.
AllRateLimited == \A k \in 1..bk_in.retries : bk_in.resp[k] = 429

RECURSIVE Pow2(_)
Pow2(n) == IF n = 0 THEN 1 ELSE 2 * Pow2(n - 1)

Min(a, b) == IF a < b THEN a ELSE b

\* C11: the call makes at least 1 and at most max_retries POSTs, makes POST
\* n+1 only when POSTs 1..n were all answered 429, and returns False when
\* every allowed POST was answered 429.
C11_BoundedAttempts ==
    Returned =>
        /\ bk_out[1].posts \in 1..bk_in.retries
        /\ \A k \in 1..(bk_out[1].posts - 1) : bk_in.resp[k] = 429
        /\ AllRateLimited =>
               (~bk_out[1].ok /\ bk_out[1].posts = bk_in.retries)

\* The default of five retries, all answered 429.
C11_Witness ==
    /\ Returned
    /\ bk_in.retries = max_retries
    /\ AllRateLimited
    /\ bk_out[1].posts = 5
    /\ ~bk_out[1].ok

\* C12: when a POST that was made ends in a non-429 HTTP error or a transport
\* error, the call returns False with that POST its last and no wait after it.
C12_HardErrorNoRetry ==
    Returned =>
        \A k \in 1..bk_in.retries :
            (bk_out[1].posts >= k /\ bk_in.resp[k] \in {500, 0}) =>
                /\ ~bk_out[1].ok
                /\ bk_out[1].posts = k
                /\ Len(bk_out[1].sleeps) = k - 1

\* A transport error on the second POST, with POSTs to spare that the service
\* would have accepted.
C12_Witness ==
    /\ Returned
    /\ bk_in.retries = max_retries
    /\ bk_in.resp[1] = 429
    /\ bk_in.resp[2] = 0
    /\ bk_in.resp[3] = 200
    /\ bk_out[1].posts = 2
    /\ ~bk_out[1].ok

\* C16: the wait after the n-th POST was answered 429 is min(2 * 2^(n-1), 64)
\* seconds, never above 64 whatever max_retries is; a wait follows every POST
\* but the last one made, so none follows the last allowed POST.
C16_BackoffSchedule ==
    Returned =>
        /\ \A n \in DOMAIN bk_out[1].sleeps :
               /\ bk_out[1].sleeps[n] = Min(2 * Pow2(n - 1), 64)
               /\ bk_out[1].sleeps[n] <= 64
               /\ bk_in.resp[n] = 429
        /\ Len(bk_out[1].sleeps) = bk_out[1].posts - 1
        /\ Len(bk_out[1].sleeps) <= bk_in.retries - 1
        /\ (bk_in.retries = max_retries /\ AllRateLimited) =>
               bk_out[1].sleeps = << 2, 4, 8, 16 >>

\* Eight retries all answered 429: the seventh wait is held at the cap.
C16_Witness ==
    /\ Returned
    /\ AllRateLimited
    /\ Len(bk_out[1].sleeps) = 7
    /\ bk_out[1].sleeps[6] = 64
    /\ bk_out[1].sleeps[7] = 64
\* ------------------------------------------------- claims about format_call

Labels(lines) == { lines[k].label : k \in DOMAIN lines }

\* C15: for two records with sensitive_call true that differ only in
\* intersection_name and analysis_neighborhood format_call returns the same
\* text; its Location line carries the redaction string and it has no
\* Neighborhood line.
C15_SensitiveRedacted ==
    (/\ fmt_out # <<>>
     /\ fmt_in[1].sensitive_call = PyTrue
     /\ fmt_in[2].sensitive_call = PyTrue) =>
        /\ fmt_out[1].text = fmt_out[2].text
        /\ \A k \in DOMAIN fmt_out :
               /\ Line("Location", Redaction) \in Range(fmt_out[k].lines)
               /\ \A l \in Range(fmt_out[k].lines) :
                      l.label = "Location" => l.value = Redaction
               /\ "Neighborhood" \notin Labels(fmt_out[k].lines)

\* Two sensitive records with different locations and neighborhoods were
\* formatted.
C15_Witness ==
    /\ fmt_out # <<>>
    /\ fmt_in[1].sensitive_call = PyTrue
    /\ fmt_in[2].sensitive_call = PyTrue
    /\ Truthy(fmt_in[1].intersection_name)
    /\ Truthy(fmt_in[2].intersection_name)
    /\ fmt_in[1].intersection_name # fmt_in[2].intersection_name
    /\ Truthy(fmt_in[1].analysis_neighborhood)
    /\ Truthy(fmt_in[2].analysis_neighborhood)
    /\ fmt_in[1].analysis_neighborhood # fmt_in[2].analysis_neighborhood
    /\ fmt_out[1].text = fmt_out[2].text

====
